---- MODULE Spec2Model ----
(***************************************************************************)
(* Model of the fvm artifact pipeline of fluvio:                           *)
(*   - Artifact::download / process_downloaded_bytes                      *)
(*       (crates/fluvio-artifacts-util/src/fvm/api/download.rs)            *)
(*   - Client::fetch_package_set / fetch_default_package_set              *)
(*       (crates/fluvio-artifacts-util/src/fvm/api/client.rs)              *)
(*   - UpdateManager::update / download / install                         *)
(*       (crates/fluvio-version-manager/src/common/update_manager.rs)      *)
(*                                                                         *)
(* Strings are sequences of characters (one-character or one-token TLA+    *)
(* strings), byte strings are sequences of integers.  Option<T> is the     *)
(* record [some, val].                                                     *)
(***************************************************************************)
EXTENDS Integers, Sequences, FiniteSets, TLC

VARIABLES
    pc,             \* position of the running operation
    caller,         \* who invoked download: "user" or "update"
    server,         \* what the GET of artifact.download_url answers
    artifact,       \* the Artifact being downloaded (self)
    target_dir,     \* download's target_dir argument
    content_type,   \* local of download: lower-cased Content-Type, optional
    bytes,          \* local of download: the response body
    zip,            \* local of process_downloaded_bytes: the opened archive
    selected_index, \* local of process_downloaded_bytes: Option<usize>
    hashed,         \* local of process_downloaded_bytes: what the hasher was fed
    fs,             \* the filesystem: path -> [exists, data]
    result,         \* return value of download
    log,            \* the effects performed so far, in order
    github,         \* what the release API answers
    channel,        \* argument of fetch_package_set
    arch,           \* argument of fetch_package_set
    fetch_result,   \* return value of fetch_package_set / fetch_default_package_set
    version,        \* argument of UpdateManager::update
    tmp_dir,        \* UpdateManager::download: whether the TempDir is alive
    new_fvm_bin,    \* the path UpdateManager::download returns
    update_result,  \* return value of UpdateManager::update
    fvm_update_version, \* the environment variable FVM_UPDATE_VERSION, optional
    next_version,   \* local of process: what resolve_version returned
    process_result, \* return value of SelfUpdateOpt::process
    fs0             \* history: the filesystem when the operation started

dlvars == <<caller, server, artifact, target_dir, content_type, bytes,
            zip, selected_index, hashed, result>>

fetchvars == <<github, channel, arch, fetch_result>>

updvars == <<version, tmp_dir, new_fvm_bin, update_result>>

procvars == <<fvm_update_version, next_version, process_result>>

vars == <<pc, fs, fs0, log, dlvars, fetchvars, updvars, procvars>>

----------------------------------------------------------------------------
(* Bounds of the model *)

\* number of entries an archive may hold
MaxEntries == 2
\* number of hexadecimal digits of the modelled digest (64 in SHA-256)
DigestHexLen == 2

----------------------------------------------------------------------------
(* Option *)

None == [some |-> FALSE, val |-> <<>>]
Some(x) == [some |-> TRUE, val |-> x]

----------------------------------------------------------------------------
(* str operations of the Rust standard library used by the code *)

StartsWith(s, p) == Len(p) <= Len(s) /\ SubSeq(s, 1, Len(p)) = p

EndsWith(s, suf) ==
    Len(suf) <= Len(s) /\ SubSeq(s, Len(s) - Len(suf) + 1, Len(s)) = suf

Contains(s, sub) ==
    \E i \in 1..(Len(s) - Len(sub) + 1) : SubSeq(s, i, i + Len(sub) - 1) = sub

IsWhitespace(c) == c = " "

RECURSIVE TrimStart(_)
TrimStart(s) ==
    IF s # <<>> /\ IsWhitespace(Head(s)) THEN TrimStart(Tail(s)) ELSE s

RECURSIVE TrimEnd(_)
TrimEnd(s) ==
    IF s # <<>> /\ IsWhitespace(s[Len(s)])
    THEN TrimEnd(SubSeq(s, 1, Len(s) - 1))
    ELSE s

Trim(s) == TrimEnd(TrimStart(s))

\* str::strip_prefix(p).unwrap_or(s)
StripPrefixOr(s, p) ==
    IF StartsWith(s, p) THEN SubSeq(s, Len(p) + 1, Len(s)) ELSE s

\* str::trim_end_matches(pat): removes the suffix repeatedly
RECURSIVE TrimEndMatches(_, _)
TrimEndMatches(s, pat) ==
    IF pat # <<>> /\ EndsWith(s, pat)
    THEN TrimEndMatches(SubSeq(s, 1, Len(s) - Len(pat)), pat)
    ELSE s

UpperChars == <<"A", "B", "C", "D", "E", "F", "H", "I", "P", "S", "Z">>
LowerChars == <<"a", "b", "c", "d", "e", "f", "h", "i", "p", "s", "z">>

AsciiLower(c) ==
    IF \E i \in 1..Len(UpperChars) : UpperChars[i] = c
    THEN LowerChars[CHOOSE i \in 1..Len(UpperChars) : UpperChars[i] = c]
    ELSE c

AsciiUpper(c) ==
    IF \E i \in 1..Len(LowerChars) : LowerChars[i] = c
    THEN UpperChars[CHOOSE i \in 1..Len(LowerChars) : LowerChars[i] = c]
    ELSE c

ToAsciiLowercase(s) == [i \in 1..Len(s) |-> AsciiLower(s[i])]
ToAsciiUppercase(s) == [i \in 1..Len(s) |-> AsciiUpper(s[i])]

----------------------------------------------------------------------------
(* SHA-256 and its lower-case hexadecimal rendering, format!("{:x}", ..).   *)
(* The digest is modelled with DigestHexLen hexadecimal digits.            *)

HexDigits == <<"0", "1", "2", "3", "4", "5", "6", "7",
               "8", "9", "a", "b", "c", "d", "e", "f">>

RECURSIVE Pow16(_)
Pow16(n) == IF n = 0 THEN 1 ELSE 16 * Pow16(n - 1)

DigestModulus == Pow16(DigestHexLen)

RECURSIVE HashFold(_, _)
HashFold(h, bs) ==
    IF bs = <<>> THEN h
    ELSE HashFold((h * 31 + Head(bs) + 1) % DigestModulus, Tail(bs))

\* Sha256::new(); hasher.update(bytes); hasher.finalize()
Sha256(bs) == HashFold(11 % DigestModulus, bs)

RECURSIVE LowerHexN(_, _)
LowerHexN(v, n) ==
    IF n = 0 THEN <<>>
    ELSE Append(LowerHexN(v \div 16, n - 1), HexDigits[(v % 16) + 1])

\* format!("{:x}", hasher.finalize())
LowerHex(v) == LowerHexN(v, DigestHexLen)

Sha256Hex(bs) == LowerHex(Sha256(bs))

----------------------------------------------------------------------------
(* The zip container (crate `zip`).  An archive is a byte string: one local  *)
(* record per entry (signature 50 4B 03 04, name, declared uncompressed     *)
(* size, stored length, stored bytes) followed by the end-of-central-       *)
(* directory record (signature 50 4B 05 06, entry count).  Names are stored *)
(* as their index in the name table.                                        *)

ZipMagic == <<80, 75, 3, 4>>
EocdMagic == <<80, 75, 5, 6>>

EntryNames == << <<"bin", "/">>,
                 <<"bin", "/", "other">>,
                 <<"bin", "/", "fvm">>,
                 <<"fvm">> >>

NameIndex(name) == CHOOSE i \in 1..Len(EntryNames) : EntryNames[i] = name

\* ZipFile::is_dir: the entry's name ends with a path separator
IsDir(entry) == EndsWith(entry.name, <<"/">>)

\* zip::ZipWriter: start_file / write_all per entry, then finish
RECURSIVE ZipWriteEntries(_)
ZipWriteEntries(entries) ==
    IF entries = <<>> THEN <<>>
    ELSE LET e == Head(entries) IN
         ZipMagic \o <<NameIndex(e.name), e.size, Len(e.data)>> \o e.data
                  \o ZipWriteEntries(Tail(entries))

ZipWrite(entries) ==
    ZipWriteEntries(entries) \o EocdMagic \o <<Len(entries)>>

ZipError == [ok |-> FALSE, entries |-> <<>>]

\* reads n local records from position pos; the end-of-central-directory
\* record must follow the last one
RECURSIVE ZipReadEntries(_, _, _)
ZipReadEntries(bs, pos, n) ==
    LET eocd == Len(bs) - 4 IN
    IF n = 0
    THEN IF pos = eocd THEN [ok |-> TRUE, entries |-> <<>>] ELSE ZipError
    ELSE IF pos + 6 >= eocd \/ SubSeq(bs, pos, pos + 3) # ZipMagic
    THEN ZipError
    ELSE LET idx  == bs[pos + 4]
             size == bs[pos + 5]
             clen == bs[pos + 6]
         IN  IF idx \notin 1..Len(EntryNames) \/ pos + 7 + clen > eocd
             THEN ZipError
             ELSE LET rest == ZipReadEntries(bs, pos + 7 + clen, n - 1) IN
                  IF ~rest.ok THEN ZipError
                  ELSE [ok |-> TRUE,
                        entries |->
                            <<[name |-> EntryNames[idx],
                               size |-> size,
                               data |-> SubSeq(bs, pos + 7, pos + 6 + clen)]>>
                            \o rest.entries]

\* zip::ZipArchive::new(reader): Err for bytes that are no archive
ZipArchiveNew(bs) ==
    IF Len(bs) < 5 \/ SubSeq(bs, Len(bs) - 4, Len(bs) - 1) # EocdMagic
    THEN ZipError
    ELSE ZipReadEntries(bs, 1, bs[Len(bs)])

----------------------------------------------------------------------------
(* Paths, files, results *)

\* Path::join
Join(dir, name) == [dir |-> dir, name |-> name]

NoFile == [exists |-> FALSE, data |-> <<>>]
FileOf(data) == [exists |-> TRUE, data |-> data]

NoPath == Join("", <<>>)
NoResult == [kind |-> "none", err |-> "", msg |-> <<>>, path |-> NoPath]
Ok(path) == [kind |-> "ok", err |-> "", msg |-> <<>>, path |-> path]
\* Error::msg(..): err is the failing site, msg the text with its interpolated values
Err(err, msg) == [kind |-> "err", err |-> err, msg |-> msg, path |-> NoPath]

----------------------------------------------------------------------------
(* Artifact::download and process_downloaded_bytes *)

StatusOK == 200

Sha256Prefix == <<"s", "h", "a", "2", "5", "6", ":">>

\* mutant: the expected digest is compared as declared, without lower-casing
ExpectedDigestCaseSensitive(declared) ==
    StripPrefixOr(Trim(declared), Sha256Prefix)

\* expected_digest.trim().strip_prefix("sha256:").unwrap_or(..).to_ascii_lowercase()
ExpectedDigest(declared) ==
    ToAsciiLowercase(StripPrefixOr(Trim(declared), Sha256Prefix))

ChecksumText == "DANGER: Downloaded artifact checksum did not match for "

ChecksumMsg(name) == <<ChecksumText, name>>

StatusMsg(status, url) ==
    <<"Server responded with Status Code ", status, " for url ", url>>

\* content_type.as_deref().is_some_and(|ct| ct.contains("zip"))
IsZipCt(ct) == ct.some /\ Contains(ct.val, <<"z", "i", "p">>)

IsZipArchive(bs) ==
    Len(bs) >= Len(ZipMagic) /\ SubSeq(bs, 1, Len(ZipMagic)) = ZipMagic

OutPath == Join(target_dir, artifact.name)

\* mutant: the first file entry is taken, whatever its name
RECURSIVE ScanEntriesFirstFile(_, _, _, _)
ScanEntriesFirstFile(entries, name, i, selected) ==
    IF i >= Len(entries) THEN selected
    ELSE IF IsDir(entries[i + 1])
    THEN ScanEntriesFirstFile(entries, name, i + 1, selected)
    ELSE Some(i)

\* the `for i in 0..zip.len()` loop: i and the result are 0-based indices
RECURSIVE ScanEntries(_, _, _, _)
ScanEntries(entries, name, i, selected) ==
    IF i >= Len(entries) THEN selected
    ELSE LET file_in_zip == entries[i + 1] IN
         IF IsDir(file_in_zip)
         THEN ScanEntries(entries, name, i + 1, selected)
         ELSE LET sel == IF ~selected.some THEN Some(i) ELSE selected IN
              IF EndsWith(file_in_zip.name, name)
              THEN Some(i)
              ELSE ScanEntries(entries, name, i + 1, sel)

Return(r) ==
    /\ result' = r
    /\ pc' = "dl_done"

\* mutant: every 2xx status is taken for a success
GetAnySuccess ==
    /\ UNCHANGED <<fs0, procvars, fetchvars, updvars>>
    /\ pc = "dl_get"
    /\ log' = Append(log, "get")
    /\ IF server.transport_error
       THEN /\ Return(Err("Transport", <<"get transport error">>))
            /\ UNCHANGED <<content_type, bytes>>
       ELSE IF server.status \in 200..299
       THEN /\ content_type' =
                   IF server.content_type.some
                   THEN Some(ToAsciiLowercase(server.content_type.val))
                   ELSE None
            /\ bytes' = server.body
            /\ pc' = "dl_checksum"
            /\ UNCHANGED result
       ELSE /\ Return(Err("Status", StatusMsg(server.status, artifact.download_url)))
            /\ UNCHANGED <<content_type, bytes>>
    /\ UNCHANGED <<caller, server, artifact, target_dir, zip, selected_index,
                   hashed, fs>>

\* htclient::get and the status test
Get ==
    /\ UNCHANGED <<fs0, procvars, fetchvars, updvars>>
    /\ pc = "dl_get"
    /\ log' = Append(log, "get")
    /\ IF server.transport_error
       THEN /\ Return(Err("Transport", <<"get transport error">>))
            /\ UNCHANGED <<content_type, bytes>>
       ELSE IF server.status = StatusOK
       THEN /\ content_type' =
                   IF server.content_type.some
                   THEN Some(ToAsciiLowercase(server.content_type.val))
                   ELSE None
            /\ bytes' = server.body
            /\ pc' = "dl_checksum"
            /\ UNCHANGED result
       ELSE /\ Return(Err("Status", StatusMsg(server.status, artifact.download_url)))
            /\ UNCHANGED <<content_type, bytes>>
    /\ UNCHANGED <<caller, server, artifact, target_dir, zip, selected_index, hashed, fs>>

\* mutant: a mismatch is logged and the download goes on
ChecksumGateWarnOnly ==
    /\ UNCHANGED <<fs0, procvars, fetchvars, updvars>>
    /\ pc = "dl_checksum"
    /\ IF artifact.sha256_digest.some
       THEN /\ hashed' = Some(bytes)
            /\ log' = Append(log, "sha256")
       ELSE UNCHANGED <<hashed, log>>
    /\ pc' = "dl_create"
    /\ UNCHANGED <<caller, server, artifact, target_dir, content_type, bytes,
                   zip, selected_index, fs, result>>

\* mutant: the destination file is created before the digest is compared
ChecksumGateAfterCreate ==
    /\ UNCHANGED <<fs0, procvars, fetchvars, updvars>>
    /\ pc = "dl_checksum"
    /\ fs' = [fs EXCEPT ![OutPath] = FileOf(<<>>)]
    /\ IF artifact.sha256_digest.some
       THEN LET expected == ExpectedDigest(artifact.sha256_digest.val)
                actual   == Sha256Hex(bytes)
            IN  /\ hashed' = Some(bytes)
                /\ log' = Append(log, "sha256")
                /\ IF actual # expected
                   THEN Return(Err("ChecksumMismatch", ChecksumMsg(artifact.name)))
                   ELSE pc' = "dl_create" /\ UNCHANGED result
       ELSE /\ pc' = "dl_create"
            /\ UNCHANGED <<hashed, log, result>>
    /\ UNCHANGED <<caller, server, artifact, target_dir, content_type, bytes,
                   zip, selected_index>>

\* `if let Some(expected_digest) = &artifact.sha256_digest { .. }`
ChecksumGate ==
    /\ UNCHANGED <<fs0, procvars, fetchvars, updvars>>
    /\ pc = "dl_checksum"
    /\ IF artifact.sha256_digest.some
       THEN LET expected == ExpectedDigest(artifact.sha256_digest.val)
                actual   == Sha256Hex(bytes)
            IN  /\ hashed' = Some(bytes)
                /\ log' = Append(log, "sha256")
                /\ IF actual # expected
                   THEN Return(Err("ChecksumMismatch", ChecksumMsg(artifact.name)))
                   ELSE pc' = "dl_create" /\ UNCHANGED result
       ELSE /\ pc' = "dl_create"
            /\ UNCHANGED <<hashed, log, result>>
    /\ UNCHANGED <<caller, server, artifact, target_dir, content_type, bytes,
                   zip, selected_index, fs>>

\* mutant: an existing destination file is opened without being truncated
CreateFileKeepsContent ==
    /\ UNCHANGED <<fs0, procvars, fetchvars, updvars>>
    /\ pc = "dl_create"
    /\ fs' = IF fs[OutPath].exists THEN fs
             ELSE [fs EXCEPT ![OutPath] = FileOf(<<>>)]
    /\ log' = Append(log, "create")
    /\ pc' = "dl_detect"
    /\ UNCHANGED <<caller, server, artifact, target_dir, content_type, bytes,
                   zip, selected_index, hashed, result>>

\* File::create(&out_path): creates the file, or truncates it
CreateFile ==
    /\ UNCHANGED <<fs0, procvars, fetchvars, updvars>>
    /\ pc = "dl_create"
    /\ fs' = [fs EXCEPT ![OutPath] = FileOf(<<>>)]
    /\ log' = Append(log, "create")
    /\ pc' = "dl_detect"
    /\ UNCHANGED <<caller, server, artifact, target_dir, content_type, bytes,
                   zip, selected_index, hashed, result>>

\* mutant: the payload is an archive only when the header and the magic
\* number both say so
DetectBothSignals ==
    /\ UNCHANGED <<fs0, procvars, fetchvars, updvars>>
    /\ pc = "dl_detect"
    /\ pc' = IF IsZipCt(content_type) /\ IsZipArchive(bytes)
             THEN "dl_open" ELSE "dl_raw"
    /\ log' = Append(log, "detect")
    /\ UNCHANGED <<caller, server, artifact, target_dir, content_type, bytes,
                   zip, selected_index, hashed, fs, result>>

\* `if is_zip_ct || is_zip_archive(bytes)`
Detect ==
    /\ UNCHANGED <<fs0, procvars, fetchvars, updvars>>
    /\ pc = "dl_detect"
    /\ pc' = IF IsZipCt(content_type) \/ IsZipArchive(bytes)
             THEN "dl_open" ELSE "dl_raw"
    /\ log' = Append(log, "detect")
    /\ UNCHANGED <<caller, server, artifact, target_dir, content_type, bytes,
                   zip, selected_index, hashed, fs, result>>

\* zip::ZipArchive::new(reader)? and the is_empty test
OpenArchive ==
    /\ UNCHANGED <<fs0, procvars, fetchvars, updvars>>
    /\ pc = "dl_open"
    /\ log' = Append(log, "zip_open")
    /\ LET opened == ZipArchiveNew(bytes) IN
       /\ zip' = opened
       /\ IF ~opened.ok
          THEN Return(Err("ZipOpen", <<"invalid Zip archive">>))
          ELSE IF opened.entries = <<>>
          THEN Return(Err("EmptyArchive", <<"Downloaded zip archive is empty">>))
          ELSE pc' = "dl_scan" /\ UNCHANGED result
    /\ UNCHANGED <<caller, server, artifact, target_dir, content_type, bytes,
                   selected_index, hashed, fs>>

\* the selection loop and `selected_index.ok_or_else(..)?`
Scan ==
    /\ UNCHANGED <<fs0, procvars, fetchvars, updvars>>
    /\ pc = "dl_scan"
    /\ LET selected == ScanEntries(zip.entries, artifact.name, 0, None) IN
       /\ selected_index' = selected
       /\ IF ~selected.some
          THEN Return(Err("NoEntries",
                   <<"Downloaded zip archive does not contain any file entries">>))
          ELSE pc' = "dl_extract" /\ UNCHANGED result
    /\ UNCHANGED <<caller, server, artifact, target_dir, content_type, bytes,
                   zip, hashed, fs, log>>

\* mutant: the declared size is compared before the zero-byte test
ExtractSizeFirst ==
    /\ UNCHANGED <<fs0, procvars, fetchvars, updvars>>
    /\ pc = "dl_extract"
    /\ LET zipped_file   == zip.entries[selected_index.val + 1]
           expected_size == zipped_file.size
           written       == Len(zipped_file.data)
       IN  /\ fs' = [fs EXCEPT ![OutPath] = FileOf(zipped_file.data)]
           /\ log' = Append(log, "copy_entry")
           /\ IF written # expected_size
              THEN Return(Err("SizeMismatch",
                       <<"Extracted file size does not match zip entry size">>))
              ELSE IF written = 0
              THEN Return(Err("EmptyEntry", <<"Downloaded zip entry is empty">>))
              ELSE Return(Ok(OutPath))
    /\ UNCHANGED <<caller, server, artifact, target_dir, content_type, bytes,
                   zip, selected_index, hashed>>

\* zip.by_index(selected_index), copy into the file, the two size tests
Extract ==
    /\ UNCHANGED <<fs0, procvars, fetchvars, updvars>>
    /\ pc = "dl_extract"
    /\ LET zipped_file   == zip.entries[selected_index.val + 1]
           expected_size == zipped_file.size
           written       == Len(zipped_file.data)
       IN  /\ fs' = [fs EXCEPT ![OutPath] = FileOf(zipped_file.data)]
           /\ log' = Append(log, "copy_entry")
           /\ IF written = 0
              THEN Return(Err("EmptyEntry", <<"Downloaded zip entry is empty">>))
              ELSE IF written # expected_size
              THEN Return(Err("SizeMismatch",
                       <<"Extracted file size does not match zip entry size">>))
              ELSE Return(Ok(OutPath))
    /\ UNCHANGED <<caller, server, artifact, target_dir, content_type, bytes,
                   zip, selected_index, hashed>>

\* the non-archive branch: copy the body into the file
WriteRaw ==
    /\ UNCHANGED <<fs0, procvars, fetchvars, updvars>>
    /\ pc = "dl_raw"
    /\ LET written == Len(bytes) IN
       /\ fs' = [fs EXCEPT ![OutPath] = FileOf(bytes)]
       /\ log' = Append(log, "copy_raw")
       /\ IF written = 0
          THEN Return(Err("EmptyDownload", <<"Downloaded artifact is empty">>))
          ELSE Return(Ok(OutPath))
    /\ UNCHANGED <<caller, server, artifact, target_dir, content_type, bytes,
                   zip, selected_index, hashed>>

----------------------------------------------------------------------------
(* Inputs of a download *)

DirNames == {EntryNames[i] : i \in {j \in 1..Len(EntryNames) :
                                        EndsWith(EntryNames[j], <<"/">>)}}
FileNames == {EntryNames[i] : i \in 1..Len(EntryNames)} \ DirNames

\* a file entry holds either nothing or one byte that tells its name; its
\* declared size is right or one too large
EntryPool ==
    {[name |-> n, size |-> 0, data |-> <<>>] : n \in DirNames}
    \cup UNION {UNION {{[name |-> n, size |-> s, data |-> d] :
                            s \in {Len(d), Len(d) + 1}} :
                       d \in {<<>>, <<10 + NameIndex(n)>>}} :
                n \in FileNames}

Archives == UNION {[1..k -> EntryPool] : k \in 0..MaxEntries}

RawProbe == ZipMagic \o <<7>>
RawBodies ==
    {SubSeq(RawProbe, 1, k) : k \in 0..Len(RawProbe)}
    \cup {<<7>>, <<7>> \o ZipMagic}

Bodies == RawBodies \cup {ZipWrite(a) : a \in Archives}

ContentTypeHeaders ==
    {None,
     Some(<<"a", "/", "z", "i", "p">>),
     Some(<<"A", "/", "Z", "I", "P">>),
     Some(<<"a", "/", "b", "i", "n">>)}

Statuses == {200, 201, 204, 404, 500}

\* bodies sent along with a status other than 200
ErrorBodies == {<<>>, <<7>>, ZipWrite(<<>>)}

TransportError ==
    [transport_error |-> TRUE, status |-> 0, content_type |-> None, body |-> <<>>]

Responses ==
    {TransportError}
    \cup {[transport_error |-> FALSE, status |-> StatusOK,
           content_type |-> ct, body |-> b] :
              ct \in ContentTypeHeaders, b \in Bodies}
    \cup {[transport_error |-> FALSE, status |-> st,
           content_type |-> ct, body |-> b] :
              st \in Statuses \ {StatusOK}, ct \in ContentTypeHeaders,
              b \in ErrorBodies}

\* the digests release metadata may declare for a body: the body's digest in
\* several spellings, and digests that are not the body's
DeclaredDigests(body) ==
    LET hex   == Sha256Hex(body)
        other == LowerHex((Sha256(body) + 1) % DigestModulus)
    IN  {None,
         Some(hex),
         Some(Sha256Prefix \o hex),
         Some(ToAsciiUppercase(hex)),
         Some(<<" ">> \o Sha256Prefix \o ToAsciiUppercase(hex) \o <<" ">>),
         Some(other),
         Some(Sha256Prefix \o other),
         Some(ToAsciiUppercase(Sha256Prefix) \o hex),
         Some(Sha256Prefix \o <<" ">> \o hex)}

ArtifactNames == {<<"fvm">>, <<"cdk">>}

UserDir == "downloads"
TmpDir == "tmp"
FvmBinPath == Join("fvm_bin", <<"fvm">>)

Paths == {Join(d, n) : d \in {UserDir, TmpDir}, n \in ArtifactNames}
             \cup {FvmBinPath}

OldFile == FileOf(<<9>>)

DownloadUrl == <<"https://example.com/", "asset">>
Version123 == <<1, 2, 3>>

----------------------------------------------------------------------------
(* Semantic versions and tags *)

Digits == <<"0", "1", "2", "3", "4", "5", "6", "7", "8", "9">>

IsDigit(c) == \E i \in 1..Len(Digits) : Digits[i] = c
DigitValue(c) == (CHOOSE i \in 1..Len(Digits) : Digits[i] = c) - 1

\* Version::parse for versions major.minor.patch of one digit each
VersionParse(text) ==
    IF /\ Len(text) = 5
       /\ text[2] = "." /\ text[4] = "."
       /\ IsDigit(text[1]) /\ IsDigit(text[3]) /\ IsDigit(text[5])
    THEN Some(<<DigitValue(text[1]), DigitValue(text[3]), DigitValue(text[5])>>)
    ELSE None

\* Version's Display
VersionToString(v) ==
    <<Digits[v[1] + 1], ".", Digits[v[2] + 1], ".", Digits[v[3] + 1]>>

\* str::trim_start_matches(c)
RECURSIVE TrimStartMatches(_, _)
TrimStartMatches(s, c) ==
    IF s # <<>> /\ Head(s) = c THEN TrimStartMatches(Tail(s), c) ELSE s

----------------------------------------------------------------------------
(* Client: fetch_release_and_version, fetch_package_set,                    *)
(* fetch_default_package_set                                                *)

FVM_INSTALLABLE_BINARIES ==
    {<<"fluvio">>, <<"fluvio", "-", "run">>, <<"cdk">>, <<"smdk">>}

Stable == [kind |-> "Stable", ver |-> <<>>, name |-> <<>>]
Tag(v) == [kind |-> "Tag", ver |-> v, name |-> <<>>]
Latest == [kind |-> "Latest", ver |-> <<>>, name |-> <<>>]
Other(n) == [kind |-> "Other", ver |-> <<>>, name |-> n]

Release(tag_name, assets) == [tag_name |-> tag_name, assets |-> assets]

NoRelease == Release(<<>>, <<>>)
NoVersion == <<0, 0, 0>>

Resolved(release, v) ==
    [ok |-> TRUE, err |-> "", release |-> release, version |-> v]
Unresolved(err) ==
    [ok |-> FALSE, err |-> err, release |-> NoRelease, version |-> NoVersion]

\* releases().get_by_tag(tag): the release carries the tag asked for
GetByTag(gh, tag) ==
    IF gh.found THEN Some(Release(tag, gh.assets)) ELSE None

\* releases().get_latest()
GetLatest(gh) ==
    IF gh.found THEN Some(Release(gh.latest_tag, gh.assets)) ELSE None

FetchReleaseAndVersion(gh, ch) ==
    CASE ch.kind = "Stable" ->
            LET release == GetLatest(gh) IN
            IF ~release.some THEN Unresolved("Unable to retrieve stable release")
            ELSE LET parsed ==
                         VersionParse(TrimStartMatches(release.val.tag_name, "v"))
                 IN  IF ~parsed.some THEN Unresolved("VersionParse")
                     ELSE Resolved(release.val, parsed.val)
      [] ch.kind = "Tag" ->
            LET release_id == <<"v">> \o VersionToString(ch.ver)
                release    == GetByTag(gh, release_id)
            IN  IF ~release.some
                THEN Unresolved("Unable to retrieve release for tag")
                ELSE Resolved(release.val, ch.ver)
      [] ch.kind = "Latest" ->
            LET release == GetByTag(gh, <<"dev">>) IN
            IF ~release.some
            THEN Unresolved("Unable to retrieve release for tag dev")
            ELSE IF gh.version_file.status = "error"
            THEN Unresolved("Unable to retrieve VERSION file for dev release")
            ELSE IF gh.version_file.status = "empty"
            THEN Unresolved("VERSION file for dev release is missing or empty")
            ELSE LET parsed == VersionParse(Trim(gh.version_file.text)) IN
                 IF ~parsed.some
                 THEN Unresolved("Invalid version string in VERSION file for dev release")
                 ELSE Resolved(release.val, parsed.val)
      [] ch.kind = "Other" ->
            LET release == GetByTag(gh, ch.name) IN
            IF ~release.some
            THEN Unresolved("Unable to retrieve release for tag")
            ELSE LET parsed ==
                         VersionParse(TrimStartMatches(release.val.tag_name, "v"))
                 IN  IF ~parsed.some THEN Unresolved("VersionParse")
                     ELSE Resolved(release.val, parsed.val)

ZipExt == <<".zip">>

\* .filter(|asset| asset.name.ends_with(&format!("{arch}.zip")))
AssetMatches(asset, a) == EndsWith(asset.name, a \o ZipExt)

\* .map(|asset| Artifact { .. })
ArtifactOf(asset, v, a) ==
    [name |-> TrimEndMatches(asset.name, <<"-">> \o a \o ZipExt),
     version |-> v,
     download_url |-> asset.browser_download_url,
     sha256_digest |-> asset.digest]

\* mutant: the assets are not filtered by architecture
FilterAssetsKeepAll(assets, a) == assets

\* release.assets.iter().filter(..)
RECURSIVE FilterAssets(_, _)
FilterAssets(assets, a) ==
    IF assets = <<>> THEN <<>>
    ELSE IF AssetMatches(Head(assets), a)
    THEN <<Head(assets)>> \o FilterAssets(Tail(assets), a)
    ELSE FilterAssets(Tail(assets), a)

NoPackageSet == [arch |-> <<>>, pkgset |-> NoVersion, artifacts |-> <<>>]

FetchOk(package_set) ==
    [kind |-> "ok", err |-> "", msg |-> <<>>, package_set |-> package_set]
FetchErr(err, msg) ==
    [kind |-> "err", err |-> err, msg |-> msg, package_set |-> NoPackageSet]
NoFetchResult ==
    [kind |-> "none", err |-> "", msg |-> <<>>, package_set |-> NoPackageSet]

NoArtifactsMsg(tag_name, a) ==
    <<"Release ", tag_name, " does not have artifacts for architecture: ", a>>

NoInstallableMsg(v, a) ==
    <<"Release ", VersionToString(v),
      " does not have installable artifacts for architecture: ", a>>

FetchPackageSet(gh, ch, a) ==
    LET rv == FetchReleaseAndVersion(gh, ch) IN
    IF ~rv.ok THEN FetchErr(rv.err, <<rv.err>>)
    ELSE LET filtered  == FilterAssets(rv.release.assets, a)
             artifacts == [i \in 1..Len(filtered) |->
                              ArtifactOf(filtered[i], rv.version, a)]
         IN  IF artifacts = <<>>
             THEN FetchErr("NoArtifactsForArchitecture",
                           NoArtifactsMsg(rv.release.tag_name, a))
             ELSE FetchOk([arch |-> a, pkgset |-> rv.version,
                           artifacts |-> artifacts])

\* mutant: only the bare names are installable
IsInstallableBareName(art) == art.name \in FVM_INSTALLABLE_BINARIES

\* the closure given to pkgset.artifacts.retain
IsInstallable(art) ==
    \E bin \in FVM_INSTALLABLE_BINARIES :
        art.name = bin \/ art.name = bin \o <<".exe">>

\* pkgset.artifacts.retain(..)
RECURSIVE Retain(_)
Retain(artifacts) ==
    IF artifacts = <<>> THEN <<>>
    ELSE IF IsInstallable(Head(artifacts))
    THEN <<Head(artifacts)>> \o Retain(Tail(artifacts))
    ELSE Retain(Tail(artifacts))

FetchDefaultPackageSet(gh, ch, a) ==
    LET fetched == FetchPackageSet(gh, ch, a) IN
    IF fetched.kind # "ok" THEN fetched
    ELSE LET pkgset   == fetched.package_set
             retained == Retain(pkgset.artifacts)
         IN  IF retained = <<>>
             THEN FetchErr("NoInstallableArtifacts",
                           NoInstallableMsg(pkgset.pkgset, a))
             ELSE FetchOk([pkgset EXCEPT !.artifacts = retained])

\* client.fetch_package_set(&channel, arch)
FetchPackageSetCall ==
    /\ pc = "fetch_package_set"
    /\ fetch_result' = FetchPackageSet(github, channel, arch)
    /\ log' = Append(log, "fetch_release")
    /\ pc' = "fetch_package_set_done"
    /\ UNCHANGED <<github, channel, arch, fs, fs0, procvars, dlvars, updvars>>

\* client.fetch_default_package_set(&channel, arch)
FetchDefaultPackageSetCall ==
    /\ pc = "fetch_default_package_set"
    /\ fetch_result' = FetchDefaultPackageSet(github, channel, arch)
    /\ log' = Append(log, "fetch_release")
    /\ pc' = "fetch_default_package_set_done"
    /\ UNCHANGED <<github, channel, arch, fs, fs0, procvars, dlvars, updvars>>

----------------------------------------------------------------------------
(* Inputs of a package-set fetch *)

\* number of assets a release may carry
MaxAssets == 2

Archs == {<<"x86">>, <<"arm">>}

AssetBases == {<<"fluvio">>, <<"fluvio", ".exe">>, <<"fvm">>}

AssetSuffixes ==
    {<<"-", "x86", ".zip">>,
     <<"x86", ".zip">>,
     <<"-", "arm", ".zip">>,
     <<"-", "x86", ".zip", "-", "x86", ".zip">>}

AssetUrl(name) == <<"https://github.com/download/">> \o name

\* the digest a release declares for an asset, if any
AssetDigests(base) ==
    IF base = <<"fvm">> THEN {None, Some(<<"0", "0">>)}
    ELSE IF base = <<"fluvio">> THEN {Some(<<"0", "0">>)}
    ELSE {None}

AssetPool ==
    UNION {{[name |-> b \o sfx, browser_download_url |-> AssetUrl(b \o sfx),
             digest |-> d] : sfx \in AssetSuffixes, d \in AssetDigests(b)} :
           b \in AssetBases}

AssetLists == UNION {[1..k -> AssetPool] : k \in 0..MaxAssets}

Version090 == <<0, 9, 0>>

TagV123 == <<"v">> \o VersionToString(Version123)

LatestTags == {TagV123, VersionToString(Version090), <<"v">> \o TagV123,
               <<"nightly">>}

VersionFiles ==
    {[status |-> "error", text |-> <<>>],
     [status |-> "empty", text |-> <<>>],
     [status |-> "ok", text |-> <<" ">> \o VersionToString(Version090) \o <<" ">>],
     [status |-> "ok", text |-> <<"nightly">>]}

Channels ==
    {Stable, Latest, Tag(Version123), Tag(Version090), Other(TagV123),
     Other(<<"nightly">>)}

NoVersionFile == [status |-> "empty", text |-> <<>>]

\* the release API: `latest_tag` matters to Stable only, `version_file` to
\* Latest only, and a release that is not found has no assets
Githubs(ch) ==
    {[found |-> FALSE, latest_tag |-> TagV123, assets |-> <<>>,
      version_file |-> NoVersionFile]}
    \cup
    {[found |-> TRUE, latest_tag |-> lt, assets |-> as, version_file |-> vf] :
        lt \in IF ch.kind = "Stable" THEN LatestTags ELSE {TagV123},
        as \in AssetLists,
        vf \in IF ch.kind = "Latest" THEN VersionFiles ELSE {NoVersionFile}}

----------------------------------------------------------------------------
(* UpdateManager: update, download, install *)

TARGET == <<"x86">>

FvmName == <<"fvm">>

\* package_set.artifacts.iter().find(|artifact| artifact.name == "fvm")
RECURSIVE FindFvm(_)
FindFvm(artifacts) ==
    IF artifacts = <<>> THEN None
    ELSE IF Head(artifacts).name = FvmName THEN Some(Head(artifacts))
    ELSE FindFvm(Tail(artifacts))

NoUpdateResult == [kind |-> "none", err |-> ""]
UpdateOk == [kind |-> "ok", err |-> ""]
UpdateErr(err) == [kind |-> "err", err |-> err]

\* TempDir's Drop: the directory and everything in it is deleted
DropTempDir(files) ==
    [p \in DOMAIN files |-> IF p.dir = TmpDir THEN NoFile ELSE files[p]]

\* update returns: every path out of update drops the TempDir
UpdateReturn(r, files) ==
    /\ update_result' = r
    /\ pc' = "upd_done"
    /\ tmp_dir' = FALSE
    /\ fs' = IF tmp_dir THEN DropTempDir(files) ELSE files

\* let tmp_dir = TempDir::new()?
UpdTempDir ==
    /\ pc = "upd_start"
    /\ \E created \in BOOLEAN :
          IF created
          THEN /\ tmp_dir' = TRUE
               /\ pc' = "upd_fetch"
               /\ UNCHANGED <<fs, update_result>>
          ELSE UpdateReturn(UpdateErr("TempDir"), fs)
    /\ UNCHANGED <<fs0, procvars, log, dlvars, fetchvars, version, new_fvm_bin>>

\* client.fetch_package_set(&channel, TARGET).await?
UpdFetch ==
    /\ pc = "upd_fetch"
    /\ LET fetched == FetchPackageSet(github, Tag(version), TARGET) IN
       /\ fetch_result' = fetched
       /\ channel' = Tag(version)
       /\ arch' = TARGET
       /\ log' = Append(log, "fetch_release")
       /\ IF fetched.kind = "ok"
          THEN /\ pc' = "upd_find"
               /\ UNCHANGED <<fs, tmp_dir, update_result>>
          ELSE UpdateReturn(UpdateErr(fetched.err), fs)
    /\ UNCHANGED <<fs0, procvars, dlvars, github, version, new_fvm_bin>>

\* let Some(fvm_artifact) = .. else { bail!(..) }
UpdFind ==
    /\ pc = "upd_find"
    /\ LET fvm_artifact == FindFvm(fetch_result.package_set.artifacts) IN
       IF fvm_artifact.some
       THEN /\ artifact' = fvm_artifact.val
            /\ pc' = "upd_digest"
            /\ UNCHANGED <<fs, tmp_dir, update_result>>
       ELSE /\ UpdateReturn(UpdateErr("ArtifactNotFound"), fs)
            /\ UNCHANGED artifact
    /\ UNCHANGED <<fs0, procvars, log, fetchvars, version, new_fvm_bin,
                   caller, server, target_dir, content_type, bytes, zip, selected_index,
                   hashed, result>>

\* mutant: the artifact is downloaded whether or not it declares a digest
UpdRequireDigestSkipped ==
    /\ pc = "upd_digest"
    /\ caller' = "update"
    /\ target_dir' = TmpDir
    /\ pc' = "dl_get"
    /\ UNCHANGED <<fs, tmp_dir, update_result>>
    /\ UNCHANGED <<fs0, procvars, log, fetchvars, version, new_fvm_bin,
                   server, artifact, content_type, bytes, zip, selected_index, hashed, result>>

\* if fvm_artifact.sha256_digest.is_none() { bail!(..) }, then the call
\* fvm_artifact.download(tmp_dir.path().to_path_buf())
UpdRequireDigest ==
    /\ pc = "upd_digest"
    /\ IF ~artifact.sha256_digest.some
       THEN /\ UpdateReturn(UpdateErr("IntegrityUnavailable"), fs)
            /\ UNCHANGED <<caller, target_dir>>
       ELSE /\ caller' = "update"
            /\ target_dir' = TmpDir
            /\ pc' = "dl_get"
            /\ UNCHANGED <<fs, tmp_dir, update_result>>
    /\ UNCHANGED <<fs0, procvars, log, fetchvars, version, new_fvm_bin,
                   server, artifact, content_type, bytes, zip, selected_index, hashed, result>>

\* mutant: the TempDir is not kept by the caller and is dropped as soon as
\* download returns
UpdSetExecutableDropsTempDir ==
    /\ pc = "dl_done"
    /\ caller = "update"
    /\ IF result.kind # "ok"
       THEN /\ UpdateReturn(UpdateErr(result.err), fs)
            /\ UNCHANGED <<new_fvm_bin, log>>
       ELSE \E mode_set \in BOOLEAN :
               IF mode_set
               THEN /\ new_fvm_bin' = result.path
                    /\ log' = Append(log, "set_executable_mode")
                    /\ pc' = "upd_install"
                    /\ tmp_dir' = FALSE
                    /\ fs' = DropTempDir(fs)
                    /\ UNCHANGED update_result
               ELSE /\ UpdateReturn(UpdateErr("SetExecutableMode"), fs)
                    /\ UNCHANGED <<new_fvm_bin, log>>
    /\ UNCHANGED <<fs0, procvars, dlvars, fetchvars, version>>

\* `.await?` on the download, then set_executable_mode(&out_path)?
UpdSetExecutable ==
    /\ pc = "dl_done"
    /\ caller = "update"
    /\ IF result.kind # "ok"
       THEN /\ UpdateReturn(UpdateErr(result.err), fs)
            /\ UNCHANGED <<new_fvm_bin, log>>
       ELSE \E mode_set \in BOOLEAN :
               IF mode_set
               THEN /\ new_fvm_bin' = result.path
                    /\ log' = Append(log, "set_executable_mode")
                    /\ pc' = "upd_install"
                    /\ UNCHANGED <<fs, tmp_dir, update_result>>
               ELSE /\ UpdateReturn(UpdateErr("SetExecutableMode"), fs)
                    /\ UNCHANGED <<new_fvm_bin, log>>
    /\ UNCHANGED <<fs0, procvars, dlvars, fetchvars, version>>

\* another process cleans the temporary files while update runs
ConcurrentCleanup ==
    /\ pc = "upd_install"
    /\ fs[new_fvm_bin].exists
    /\ fs' = [fs EXCEPT ![new_fvm_bin] = NoFile]
    /\ log' = Append(log, "cleanup")
    /\ UNCHANGED <<pc, fs0, procvars, dlvars, fetchvars, updvars>>

\* what remove_fvm_binary_if_exists does to an existing installed binary
RemoveFvmBinary(files) == [files EXCEPT ![FvmBinPath] = NoFile]

\* mutant: install removes the installed binary before it looks for the new one
UpdInstallCheckRemoveFirst ==
    /\ pc = "upd_install"
    /\ \E path_known \in BOOLEAN :
          IF ~path_known
          THEN /\ UpdateReturn(UpdateErr("FvmBinPath"), fs)
               /\ UNCHANGED log
          ELSE /\ log' = log \o <<"remove", "exists">>
               /\ IF ~fs[new_fvm_bin].exists
                  THEN UpdateReturn(UpdateErr("MissingBinary"),
                                    RemoveFvmBinary(fs))
                  ELSE /\ pc' = "upd_remove"
                       /\ fs' = RemoveFvmBinary(fs)
                       /\ UNCHANGED <<tmp_dir, update_result>>
    /\ UNCHANGED <<fs0, procvars, dlvars, fetchvars, version, new_fvm_bin>>

\* install: fvm_bin_path()? and `if !new_fvm_bin.exists() { bail!(..) }`
UpdInstallCheck ==
    /\ pc = "upd_install"
    /\ \E path_known \in BOOLEAN :
          IF ~path_known
          THEN /\ UpdateReturn(UpdateErr("FvmBinPath"), fs)
               /\ UNCHANGED log
          ELSE /\ log' = Append(log, "exists")
               /\ IF ~fs[new_fvm_bin].exists
                  THEN UpdateReturn(UpdateErr("MissingBinary"), fs)
                  ELSE /\ pc' = "upd_remove"
                       /\ UNCHANGED <<fs, tmp_dir, update_result>>
    /\ UNCHANGED <<fs0, procvars, dlvars, fetchvars, version, new_fvm_bin>>

\* remove_fvm_binary_if_exists()?
UpdRemove ==
    /\ pc = "upd_remove"
    /\ IF fs[FvmBinPath].exists
       THEN \E removed \in BOOLEAN :
               IF removed
               THEN /\ fs' = RemoveFvmBinary(fs)
                    /\ log' = Append(log, "remove")
                    /\ pc' = "upd_copy"
                    /\ UNCHANGED <<tmp_dir, update_result>>
               ELSE /\ UpdateReturn(UpdateErr("InstallAborted"), fs)
                    /\ UNCHANGED log
       ELSE /\ pc' = "upd_copy"
            /\ UNCHANGED <<fs, log, tmp_dir, update_result>>
    /\ UNCHANGED <<fs0, procvars, dlvars, fetchvars, version, new_fvm_bin>>

\* mutant: a failed copy puts the binary that was installed before back
UpdCopyRestoring ==
    /\ pc = "upd_copy"
    /\ log' = Append(log, "copy")
    /\ \E copied \in BOOLEAN :
          IF copied
          THEN UpdateReturn(UpdateOk,
                   [fs EXCEPT ![FvmBinPath] = FileOf(fs[new_fvm_bin].data)])
          ELSE UpdateReturn(UpdateErr("Copy"),
                   [fs EXCEPT ![FvmBinPath] = fs0[FvmBinPath]])
    /\ UNCHANGED <<fs0, procvars, dlvars, fetchvars, version, new_fvm_bin>>

\* std::fs::copy(new_fvm_bin, &old_fvm_bin)?; a failed copy may have created
\* the destination already
UpdCopy ==
    /\ pc = "upd_copy"
    /\ log' = Append(log, "copy")
    /\ \E copied \in BOOLEAN, partial \in {NoFile, FileOf(<<>>)} :
          IF copied
          THEN UpdateReturn(UpdateOk,
                   [fs EXCEPT ![FvmBinPath] = FileOf(fs[new_fvm_bin].data)])
          ELSE UpdateReturn(UpdateErr("Copy"),
                   [fs EXCEPT ![FvmBinPath] = partial])
    /\ UNCHANGED <<fs0, procvars, dlvars, fetchvars, version, new_fvm_bin>>

----------------------------------------------------------------------------
(* SelfUpdateOpt: process, resolve_version, fetch_stable_tag *)

\* the effect e has been performed
InLog(e) == \E i \in 1..Len(log) : log[i] = e

\* crate::VERSION, the version of the running tool
VERSION == VersionToString(Version090)

NoNextVersion ==
    [kind |-> "none", err |-> "", version |-> NoVersion, looked_up |-> FALSE]
VersionOk(v, looked_up) ==
    [kind |-> "ok", err |-> "", version |-> v, looked_up |-> looked_up]
VersionErr(err, looked_up) ==
    [kind |-> "err", err |-> err, version |-> NoVersion,
     looked_up |-> looked_up]

\* fetch_stable_tag: get_latest, tag_name.trim_start_matches('v'), parse
FetchStableTag(gh) ==
    LET release == GetLatest(gh) IN
    IF ~release.some
    THEN VersionErr("Unable to retrieve stable release for FVM", TRUE)
    ELSE LET tag    == TrimStartMatches(release.val.tag_name, "v")
             parsed == VersionParse(tag)
         IN  IF parsed.some THEN VersionOk(parsed.val, TRUE)
             ELSE VersionErr("VersionParse", TRUE)

\* mutant: an override that does not parse falls back to the stable lookup
ResolveVersionFallback(override, gh) ==
    IF override.some /\ VersionParse(override.val).some
    THEN VersionOk(VersionParse(override.val).val, FALSE)
    ELSE FetchStableTag(gh)

\* resolve_version: `if let Ok(version) = var(FVM_UPDATE_VERSION)
\* { return Ok(Version::parse(&version)?); }` else fetch_stable_tag
ResolveVersion(override, gh) ==
    IF override.some
    THEN LET parsed == VersionParse(override.val) IN
         IF parsed.some THEN VersionOk(parsed.val, FALSE)
         ELSE VersionErr("VersionParse", FALSE)
    ELSE FetchStableTag(gh)

NoProcessResult == [kind |-> "none", err |-> ""]
ProcessOk == [kind |-> "ok", err |-> ""]
ProcessErr(err) == [kind |-> "err", err |-> err]

\* let next_version = self.resolve_version().await?
ProcResolveVersion ==
    /\ pc = "proc_start"
    /\ LET resolved == ResolveVersion(fvm_update_version, github) IN
       /\ next_version' = resolved
       /\ log' = IF resolved.looked_up THEN Append(log, "get_latest") ELSE log
       /\ IF resolved.kind = "ok"
          THEN /\ pc' = "proc_compare"
               /\ UNCHANGED process_result
          ELSE /\ pc' = "proc_done"
               /\ process_result' = ProcessErr(resolved.err)
    /\ UNCHANGED <<fs, fs0, dlvars, fetchvars, updvars, fvm_update_version>>

\* mutant: update is invoked whatever the resolved version is
ProcCompareAlwaysUpdates ==
    /\ pc = "proc_compare"
    /\ version' = next_version.version
    /\ log' = Append(log, "update")
    /\ pc' = "upd_start"
    /\ UNCHANGED <<fs, fs0, dlvars, fetchvars, tmp_dir, new_fvm_bin,
                   update_result, procvars>>

\* `if next_version.to_string() != VERSION { .. update(&next_version) .. }`,
\* else "Already up-to-date" and Ok(())
ProcCompare ==
    /\ pc = "proc_compare"
    /\ IF VersionToString(next_version.version) # VERSION
       THEN /\ version' = next_version.version
            /\ log' = Append(log, "update")
            /\ pc' = "upd_start"
            /\ UNCHANGED process_result
       ELSE /\ log' = Append(log, "up_to_date")
            /\ pc' = "proc_done"
            /\ process_result' = ProcessOk
            /\ UNCHANGED version
    /\ UNCHANGED <<fs, fs0, dlvars, fetchvars, tmp_dir, new_fvm_bin,
                   update_result, fvm_update_version, next_version>>

\* `update_manager.update(&next_version).await?; return Ok(())`
ProcUpdateReturn ==
    /\ pc = "upd_done"
    /\ InLog("update")
    /\ process_result' = IF update_result.kind = "ok" THEN ProcessOk
                         ELSE ProcessErr(update_result.err)
    /\ pc' = "proc_done"
    /\ UNCHANGED <<fs, fs0, log, dlvars, fetchvars, updvars,
                   fvm_update_version, next_version>>

ProcessIdle ==
    /\ fvm_update_version = None
    /\ next_version = NoNextVersion
    /\ process_result = NoProcessResult

FetchIdle ==
    /\ github = [found |-> FALSE, latest_tag |-> <<>>, assets |-> <<>>,
                 version_file |-> NoVersionFile]
    /\ channel = Stable
    /\ arch = <<>>
    /\ fetch_result = NoFetchResult

UpdateIdle ==
    /\ version = NoVersion
    /\ tmp_dir = FALSE
    /\ new_fvm_bin = NoPath
    /\ update_result = NoUpdateResult

DownloadIdle ==
    /\ caller = "user"
    /\ server = TransportError
    /\ artifact = [name |-> <<>>, version |-> NoVersion,
                   download_url |-> <<>>, sha256_digest |-> None]
    /\ target_dir = UserDir
    /\ content_type = None
    /\ bytes = <<>>
    /\ zip = ZipError
    /\ selected_index = None
    /\ hashed = None
    /\ result = NoResult

\* a caller invokes fetch_package_set or fetch_default_package_set
FetchInit ==
    /\ pc \in {"fetch_package_set", "fetch_default_package_set"}
    /\ channel \in Channels
    /\ arch \in Archs
    /\ github \in Githubs(channel)
    /\ fetch_result = NoFetchResult
    /\ fs = [p \in Paths |-> NoFile]
    /\ fs0 = fs
    /\ log = <<>>
    /\ DownloadIdle
    /\ UpdateIdle
    /\ ProcessIdle

FetchNext ==
    \/ FetchPackageSetCall
    \/ FetchDefaultPackageSetCall

SpecFetch == FetchInit /\ [][FetchNext]_vars

----------------------------------------------------------------------------
\* a caller invokes artifact.download(target_dir)
DownloadInit ==
    /\ pc = "dl_get"
    /\ caller = "user"
    /\ server \in Responses
    /\ \E n \in ArtifactNames, d \in DeclaredDigests(server.body) :
           artifact = [name |-> n, version |-> Version123,
                       download_url |-> DownloadUrl, sha256_digest |-> d]
    /\ target_dir = UserDir
    /\ content_type = None
    /\ bytes = <<>>
    /\ zip = ZipError
    /\ selected_index = None
    /\ hashed = None
    /\ \E old \in {NoFile, OldFile} :
           fs = [p \in Paths |->
                    IF p = Join(UserDir, artifact.name) THEN old ELSE NoFile]
    /\ fs0 = fs
    /\ result = NoResult
    /\ log = <<>>
    /\ FetchIdle
    /\ UpdateIdle
    /\ ProcessIdle

DownloadNext ==
    \/ Get
    \/ ChecksumGate
    \/ CreateFile
    \/ Detect
    \/ OpenArchive
    \/ Scan
    \/ Extract
    \/ WriteRaw

SpecDownload == DownloadInit /\ [][DownloadNext]_vars

----------------------------------------------------------------------------
(* Inputs of a self-update *)

\* what the download URL of the fvm asset may serve
UpdateBodies ==
    {<<>>, <<7>>} \cup {ZipWrite(a) : a \in {b \in Archives : Len(b) <= 1}}

UpdateResponses ==
    {TransportError,
     [transport_error |-> FALSE, status |-> 404, content_type |-> None,
      body |-> <<>>]}
    \cup {[transport_error |-> FALSE, status |-> StatusOK,
           content_type |-> ct, body |-> b] :
              ct \in {None, Some(<<"a", "/", "z", "i", "p">>)},
              b \in UpdateBodies}

UpdateAsset(name, digest) ==
    [name |-> name, browser_download_url |-> AssetUrl(name), digest |-> digest]

\* the assets of the release: fvm for this target without a digest, with the
\* digest of the served body, with another digest; and other assets
UpdateAssetPool(body) ==
    {UpdateAsset(<<"fvm", "-", "x86", ".zip">>, d) :
        d \in {None, Some(Sha256Prefix \o Sha256Hex(body)),
               Some(LowerHex((Sha256(body) + 1) % DigestModulus))}}
    \cup {UpdateAsset(<<"fluvio", "-", "x86", ".zip">>, None),
          UpdateAsset(<<"fvm", "-", "arm", ".zip">>, Some(Sha256Hex(body)))}

UpdateAssetLists(body) ==
    UNION {[1..k -> UpdateAssetPool(body)] : k \in 0..MaxAssets}

\* SelfUpdateOpt::process invokes update_manager.update(&next_version)
UpdateInit ==
    /\ pc = "upd_start"
    /\ version \in {Version123}
    /\ server \in UpdateResponses
    /\ \E found \in BOOLEAN :
          \E as \in IF found THEN UpdateAssetLists(server.body) ELSE {<<>>} :
             github = [found |-> found, latest_tag |-> TagV123, assets |-> as,
                       version_file |-> NoVersionFile]
    /\ channel = Stable
    /\ arch = <<>>
    /\ fetch_result = NoFetchResult
    /\ \E old \in {NoFile, OldFile} :
           fs = [p \in Paths |-> IF p = FvmBinPath THEN old ELSE NoFile]
    /\ fs0 = fs
    /\ log = <<>>
    /\ caller = "user"
    /\ artifact = [name |-> <<>>, version |-> NoVersion,
                   download_url |-> <<>>, sha256_digest |-> None]
    /\ target_dir = UserDir
    /\ content_type = None
    /\ bytes = <<>>
    /\ zip = ZipError
    /\ selected_index = None
    /\ hashed = None
    /\ result = NoResult
    /\ tmp_dir = FALSE
    /\ new_fvm_bin = NoPath
    /\ update_result = NoUpdateResult
    /\ ProcessIdle

UpdateNext ==
    \/ UpdTempDir
    \/ UpdFetch
    \/ UpdFind
    \/ UpdRequireDigest
    \/ DownloadNext
    \/ UpdSetExecutable
    \/ ConcurrentCleanup
    \/ UpdInstallCheck
    \/ UpdRemove
    \/ UpdCopy

SpecUpdate == UpdateInit /\ [][UpdateNext]_vars

----------------------------------------------------------------------------
(* Inputs of `fvm self update` *)

\* FVM_UPDATE_VERSION: unset, a version, the running version, and texts
\* Version::parse rejects
Overrides ==
    {None,
     Some(VersionToString(Version123)),
     Some(VERSION),
     Some(TagV123),
     Some(<<"nightly">>)}

ProcessAssetLists(body) == {as \in UpdateAssetLists(body) : Len(as) <= 1}

\* the user runs `fvm self update`
ProcessInit ==
    /\ pc = "proc_start"
    /\ fvm_update_version \in Overrides
    /\ next_version = NoNextVersion
    /\ process_result = NoProcessResult
    /\ server \in UpdateResponses
    /\ \E found \in BOOLEAN :
          \E lt \in IF found THEN LatestTags ELSE {TagV123},
             as \in IF found THEN ProcessAssetLists(server.body) ELSE {<<>>} :
             github = [found |-> found, latest_tag |-> lt, assets |-> as,
                       version_file |-> NoVersionFile]
    /\ channel = Stable
    /\ arch = <<>>
    /\ fetch_result = NoFetchResult
    /\ \E old \in {NoFile, OldFile} :
           fs = [p \in Paths |-> IF p = FvmBinPath THEN old ELSE NoFile]
    /\ fs0 = fs
    /\ log = <<>>
    /\ caller = "user"
    /\ artifact = [name |-> <<>>, version |-> NoVersion,
                   download_url |-> <<>>, sha256_digest |-> None]
    /\ target_dir = UserDir
    /\ content_type = None
    /\ bytes = <<>>
    /\ zip = ZipError
    /\ selected_index = None
    /\ hashed = None
    /\ result = NoResult
    /\ UpdateIdle

ProcessNext ==
    \/ ProcResolveVersion
    \/ ProcCompare
    \/ UpdateNext
    \/ ProcUpdateReturn

SpecProcess == ProcessInit /\ [][ProcessNext]_vars

----------------------------------------------------------------------------
(* Vocabulary of the properties *)

\* every occurrence of `later` in the log comes after an occurrence of `earlier`
Precedes(earlier, later) ==
    \A i \in 1..Len(log) :
        log[i] = later => \E j \in 1..(i - 1) : log[j] = earlier

Min(S) == CHOOSE x \in S : \A y \in S : x <= y

\* the response was handed to process_downloaded_bytes
Processed == ~server.transport_error /\ server.status = StatusOK

Declared == artifact.sha256_digest.val

\* the claims' normal form of a declared digest: trimmed, without an optional
\* `sha256:` prefix, lower-cased
NormalDigest(d) ==
    LET t == Trim(d)
        u == IF StartsWith(t, Sha256Prefix)
             THEN SubSeq(t, Len(Sha256Prefix) + 1, Len(t)) ELSE t
    IN  [i \in 1..Len(u) |-> AsciiLower(u[i])]

DeclaredMismatch ==
    artifact.sha256_digest.some /\ Sha256Hex(server.body) # NormalDigest(Declared)

DeclaredCorrect ==
    artifact.sha256_digest.some /\ Sha256Hex(server.body) = NormalDigest(Declared)

\* the payload went down the archive branch
TreatedAsArchive == InLog("zip_open")

----------------------------------------------------------------------------
(* C1: whenever the artifact declares a digest and the SHA-256 of the       *)
(* downloaded body differs from it (trimmed, `sha256:` removed, lower-      *)
(* cased), download returns no path, and once the body was handed to        *)
(* process_downloaded_bytes it fails with the checksum error, for archive   *)
(* and raw payloads alike.                                                  *)
C1_ChecksumMismatchFails ==
    /\ result.kind = "ok" => ~DeclaredMismatch
    /\ (pc = "dl_done" /\ Processed /\ DeclaredMismatch) =>
           /\ result.kind = "err"
           /\ result.err = "ChecksumMismatch"
           /\ result.msg[1] = ChecksumText
           /\ result.path = NoPath

\* a zip archive with a wrong digest was refused
C1_Witness ==
    /\ pc = "dl_done"
    /\ Processed
    /\ DeclaredMismatch
    /\ IsZipArchive(server.body)
    /\ IsZipCt(content_type)
    /\ result.err = "ChecksumMismatch"

(* C3 as claimed: for an artifact whose declared digest is correct for the  *)
(* downloaded bytes, download succeeds and the SHA-256 of the file at the   *)
(* returned path equals the expected digest, for every payload.             *)
C3_CorrectDigestFileMatches ==
    (pc = "dl_done" /\ Processed /\ DeclaredCorrect) =>
        /\ result.kind = "ok"
        /\ fs[result.path].exists
        /\ Sha256Hex(fs[result.path].data) = NormalDigest(Declared)

(* C3, amended: for an artifact whose declared digest is correct for the    *)
(* downloaded bytes, download never fails with the checksum error; if the   *)
(* payload is not empty and is not treated as a zip archive, download       *)
(* succeeds and the SHA-256 of the file at the returned path equals the     *)
(* expected digest modulo the `sha256:` prefix and case.                    *)
C3_CorrectDigestRawFileMatches ==
    (pc = "dl_done" /\ Processed /\ DeclaredCorrect) =>
        /\ result.err # "ChecksumMismatch"
        /\ (~TreatedAsArchive /\ server.body # <<>>) =>
               /\ result.kind = "ok"
               /\ result.path = OutPath
               /\ fs[result.path].exists
               /\ Sha256Hex(fs[result.path].data) = NormalDigest(Declared)

\* a raw payload whose digest was declared in upper case with the prefix
C3_Witness ==
    /\ pc = "dl_done"
    /\ Processed
    /\ DeclaredCorrect
    /\ Declared # Sha256Hex(server.body)
    /\ ~TreatedAsArchive
    /\ result.kind = "ok"

(* C4: when the artifact declares a digest, the hash is taken over the      *)
(* whole response body, and the destination file is created, the format     *)
(* detected, an archive opened and bytes copied only after the comparison   *)
(* has been made and has passed; on a mismatch the filesystem is left as    *)
(* it was.                                                                  *)
C4_ChecksumGateFirst ==
    artifact.sha256_digest.some =>
        /\ hashed.some => hashed.val = server.body
        /\ Precedes("sha256", "create")
        /\ Precedes("sha256", "detect")
        /\ Precedes("sha256", "zip_open")
        /\ Precedes("sha256", "copy_entry")
        /\ Precedes("sha256", "copy_raw")
        /\ (InLog("create") \/ fs # fs0) => (hashed.some /\ ~DeclaredMismatch)
        /\ fs = fs0 \/ ~DeclaredMismatch

\* an archive passed the gate and was then opened and extracted over an
\* existing file
C4_Witness ==
    /\ pc = "dl_done"
    /\ artifact.sha256_digest.some
    /\ hashed = Some(server.body)
    /\ TreatedAsArchive
    /\ fs0[OutPath].exists
    /\ result.kind = "ok"

\* the non-directory entries of the opened archive, and those whose name
\* ends with the artifact's name (1-based positions)
FileIdx == {i \in 1..Len(zip.entries) : ~IsDir(zip.entries[i])}
MatchIdx == {i \in FileIdx : EndsWith(zip.entries[i].name, artifact.name)}
ClaimedEntry == IF MatchIdx # {} THEN Min(MatchIdx) ELSE Min(FileIdx)

(* C5: on the archive path the entry extracted is the first non-directory   *)
(* entry whose name ends with the artifact name, else the first             *)
(* non-directory entry; with only directory entries download fails with    *)
(* the no-file-entries error; on success the written file holds exactly     *)
(* the selected entry's bytes.                                              *)
C5_EntrySelection ==
    (pc = "dl_done" /\ TreatedAsArchive /\ zip.ok /\ zip.entries # <<>>) =>
        /\ (FileIdx = {}) <=> (result.err = "NoEntries")
        /\ FileIdx = {} => (result.kind = "err" /\ ~selected_index.some)
        /\ FileIdx # {} =>
               /\ selected_index = Some(ClaimedEntry - 1)
               /\ ~IsDir(zip.entries[ClaimedEntry])
        /\ result.kind = "ok" =>
               /\ result.path = OutPath
               /\ fs[OutPath] = FileOf(zip.entries[ClaimedEntry].data)

\* the entry matching the artifact name is stored after another file entry
C5_Witness ==
    /\ pc = "dl_done"
    /\ TreatedAsArchive
    /\ result.kind = "ok"
    /\ Len(zip.entries) = 2
    /\ FileIdx = {1, 2}
    /\ MatchIdx = {2}
    /\ fs[OutPath].data # zip.entries[1].data

IsSuccessStatus(st) == st \in 200..299

(* C10 as claimed: download fails with the status error if and only if the  *)
(* status is not a 2xx status, and for every 2xx status the body goes on    *)
(* to checksum verification and format detection.                           *)
C10_StatusErrorIffNonSuccess ==
    (pc = "dl_done" /\ ~server.transport_error) =>
        /\ (result.err = "Status") <=> ~IsSuccessStatus(server.status)
        /\ IsSuccessStatus(server.status) =>
               /\ bytes = server.body
               /\ (InLog("sha256") \/ InLog("detect"))

(* C10, amended: download fails with a status error carrying the status     *)
(* code and the URL if and only if the response status is not 200 OK; in    *)
(* that case the body is not examined and no file is created; for status    *)
(* 200 the body is passed on to checksum verification and format detection. *)
C10_StatusErrorIffNotOk ==
    (pc = "dl_done" /\ ~server.transport_error) =>
        /\ (result.err = "Status") <=> (server.status # StatusOK)
        /\ server.status # StatusOK =>
               /\ result.kind = "err"
               /\ Len(result.msg) = 4
               /\ result.msg[2] = server.status
               /\ result.msg[4] = artifact.download_url
               /\ log = <<"get">>
               /\ bytes = <<>>
               /\ ~hashed.some
               /\ fs = fs0
        /\ server.status = StatusOK =>
               /\ bytes = server.body
               /\ (InLog("sha256") \/ InLog("detect"))

\* a 2xx status other than 200 is answered with the status error
C10_Witness ==
    /\ pc = "dl_done"
    /\ ~server.transport_error
    /\ IsSuccessStatus(server.status)
    /\ server.status # StatusOK
    /\ server.body # <<>>
    /\ result.err = "Status"

----------------------------------------------------------------------------
(* Properties of the package-set fetch *)

FetchDone ==
    pc \in {"fetch_package_set_done", "fetch_default_package_set_done"}

\* the release and version the channel resolves to
ResolvedChannel == FetchReleaseAndVersion(github, channel)

\* positions of the release's assets whose name ends with `{arch}.zip`
MatchingAssetIdx ==
    {i \in 1..Len(github.assets) :
        LET n == github.assets[i].name
            sfx == arch \o <<".zip">>
        IN  Len(n) >= Len(sfx) /\ SubSeq(n, Len(n) - Len(sfx) + 1, Len(n)) = sfx}

\* the k-th smallest element of a set of numbers
Nth(S, k) == CHOOSE i \in S : Cardinality({j \in S : j < i}) = k - 1

(* C7: a returned PackageSet is not empty, carries the requested arch, and  *)
(* all its artifacts carry the set's version, the one resolved for the      *)
(* channel (for Tag(v): v); fetch_package_set returns one artifact per      *)
(* asset whose name ends with `{arch}.zip`, in asset order, with the        *)
(* asset's URL and digest, and fails with the no-artifacts error exactly    *)
(* when no asset of the resolved release matches.                           *)
C7_PackageSetInvariant ==
    /\ (FetchDone /\ fetch_result.kind = "ok") =>
           LET ps == fetch_result.package_set IN
           /\ ps.artifacts # <<>>
           /\ ps.arch = arch
           /\ \A i \in 1..Len(ps.artifacts) : ps.artifacts[i].version = ps.pkgset
           /\ ps.pkgset = ResolvedChannel.version
           /\ channel.kind = "Tag" => ps.pkgset = channel.ver
    /\ (pc = "fetch_package_set_done" /\ ResolvedChannel.ok) =>
           LET arts == fetch_result.package_set.artifacts IN
           /\ (fetch_result.err = "NoArtifactsForArchitecture")
                  <=> (MatchingAssetIdx = {})
           /\ (fetch_result.kind = "ok") <=> (MatchingAssetIdx # {})
           /\ fetch_result.kind = "ok" =>
                  /\ Len(arts) = Cardinality(MatchingAssetIdx)
                  /\ \A k \in 1..Len(arts) :
                        LET asset == github.assets[Nth(MatchingAssetIdx, k)] IN
                        /\ arts[k].download_url = asset.browser_download_url
                        /\ arts[k].sha256_digest = asset.digest

\* the second of two assets is the only one for the architecture
C7_Witness ==
    /\ pc = "fetch_package_set_done"
    /\ fetch_result.kind = "ok"
    /\ channel.kind = "Tag"
    /\ Len(github.assets) = 2
    /\ MatchingAssetIdx = {2}
    /\ Len(fetch_result.package_set.artifacts) = 1

(* C8: no artifact produced by fetch_package_set has a name that ends with  *)
(* `{arch}.zip`; its name is the asset's name without the trailing          *)
(* `-{arch}.zip`.                                                           *)
C8_NameWithoutArchSuffix ==
    (pc = "fetch_package_set_done" /\ fetch_result.kind = "ok") =>
        LET arts == fetch_result.package_set.artifacts IN
        \A k \in 1..Len(arts) :
            LET asset == github.assets[Nth(MatchingAssetIdx, k)]
                sfx   == arch \o <<".zip">>
                n     == arts[k].name
            IN  /\ ~(Len(n) >= Len(sfx)
                       /\ SubSeq(n, Len(n) - Len(sfx) + 1, Len(n)) = sfx)
                /\ Len(n) < Len(asset.name)
                /\ SubSeq(asset.name, 1, Len(n)) = n

\* the allow-listed names, bare and with `.exe`
AllowedNames ==
    {<<"fluvio">>, <<"fluvio", "-", "run">>, <<"cdk">>, <<"smdk">>,
     <<"fluvio", ".exe">>, <<"fluvio", "-", "run", ".exe">>,
     <<"cdk", ".exe">>, <<"smdk", ".exe">>}

Unfiltered == FetchPackageSet(github, channel, arch)

AllowedOf(artifacts) == SelectSeq(artifacts, LAMBDA a : a.name \in AllowedNames)

(* C9: fetch_default_package_set returns the artifacts of fetch_package_set *)
(* whose name is allow-listed, bare or with `.exe`, in the same order and   *)
(* with the same arch and version; when none remains it fails with an       *)
(* error whose message names the resolved version and the architecture.     *)
C9_DefaultPackageSet ==
    (pc = "fetch_default_package_set_done" /\ Unfiltered.kind = "ok") =>
        LET base == Unfiltered.package_set
            kept == AllowedOf(base.artifacts)
        IN  IF kept # <<>>
            THEN /\ fetch_result.kind = "ok"
                 /\ fetch_result.package_set =
                        [arch |-> arch, pkgset |-> base.pkgset, artifacts |-> kept]
            ELSE /\ fetch_result.kind = "err"
                 /\ fetch_result.err = "NoInstallableArtifacts"
                 /\ Len(fetch_result.msg) = 4
                 /\ fetch_result.msg[2] = VersionToString(base.pkgset)
                 /\ fetch_result.msg[4] = arch

\* `fluvio.exe` is kept while another artifact of the release is rejected
C9_Witness ==
    /\ pc = "fetch_default_package_set_done"
    /\ fetch_result.kind = "ok"
    /\ Unfiltered.kind = "ok"
    /\ Len(Unfiltered.package_set.artifacts) = 2
    /\ Len(fetch_result.package_set.artifacts) = 1
    /\ fetch_result.package_set.artifacts[1].name = <<"fluvio", ".exe">>

----------------------------------------------------------------------------
(* Properties of the self-update *)

\* the artifact named `fvm` that update finds in the fetched package set
FvmIdx ==
    {i \in 1..Len(fetch_result.package_set.artifacts) :
        fetch_result.package_set.artifacts[i].name = <<"fvm">>}

FoundFvm == fetch_result.package_set.artifacts[Min(FvmIdx)]

(* C2: no self-update issues the GET of an artifact that declares no        *)
(* digest; when the `fvm` artifact found in the package set has none, the   *)
(* update ends with the integrity-policy error with no GET issued and the   *)
(* installed binary neither removed nor written.                            *)
C2_NoDownloadWithoutDigest ==
    /\ InLog("get") => artifact.sha256_digest.some
    /\ (/\ fetch_result.kind = "ok"
        /\ FvmIdx # {}
        /\ ~FoundFvm.sha256_digest.some
        /\ pc \notin {"upd_find", "upd_digest"}) =>
           /\ pc = "upd_done"
           /\ update_result = UpdateErr("IntegrityUnavailable")
           /\ ~InLog("get")
           /\ ~InLog("remove")
           /\ ~InLog("copy")
           /\ fs = fs0

\* the update of an installed fvm stops at an artifact without digest whose
\* URL would have served a binary
C2_Witness ==
    /\ pc = "upd_done"
    /\ update_result = UpdateErr("IntegrityUnavailable")
    /\ fs0[FvmBinPath].exists
    /\ Processed
    /\ server.body # <<>>

----------------------------------------------------------------------------
\* no `later` is logged before an `earlier`
NeverBefore(later, earlier) ==
    \A i, j \in 1..Len(log) :
        (log[i] = later /\ log[j] = earlier) => j < i

(* C11: install looks for the downloaded file first, then removes the       *)
(* installed binary, then copies: the removal and the copy follow the       *)
(* existence test, the copy is attempted only with the installed binary     *)
(* removed and nothing is removed after it; when the downloaded file is     *)
(* missing install fails with the installed binary neither removed nor      *)
(* modified; when the removal fails install fails and no copy is attempted. *)
C11_InstallOrder ==
    /\ Precedes("exists", "remove")
    /\ Precedes("exists", "copy")
    /\ NeverBefore("copy", "remove")
    /\ pc = "upd_copy" => ~fs[FvmBinPath].exists
    /\ (InLog("copy") /\ fs0[FvmBinPath].exists) => InLog("remove")
    /\ (pc = "upd_done" /\ InLog("cleanup")) =>
           /\ update_result.kind = "err"
           /\ update_result.err \in {"FvmBinPath", "MissingBinary"}
    /\ update_result.err = "MissingBinary" =>
           /\ ~InLog("remove")
           /\ ~InLog("copy")
           /\ fs[FvmBinPath] = fs0[FvmBinPath]
    /\ update_result.err = "InstallAborted" =>
           /\ ~InLog("copy")
           /\ fs[FvmBinPath] = fs0[FvmBinPath]

\* the downloaded file was found, an installed binary removed and the new one
\* copied in its place
C11_Witness ==
    /\ pc = "upd_done"
    /\ update_result = UpdateOk
    /\ log[Len(log) - 2] = "exists"
    /\ log[Len(log) - 1] = "remove"
    /\ log[Len(log)] = "copy"
    /\ fs[FvmBinPath].exists
    /\ fs[FvmBinPath] # fs0[FvmBinPath]

\* the errors update returns before install reaches the removal
BeforeRemoval(err) == err \notin {"InstallAborted", "Copy"}

(* C12: as long as update has neither removed nor copied, the installed     *)
(* binary is what it was, so every failure before the removal step (fetch,  *)
(* fvm not found, missing digest, download or checksum failure, executable  *)
(* mode, new binary missing) leaves it unchanged; the installed binary is   *)
(* removed only after a download with a declared and matching digest has    *)
(* succeeded; when the copy fails after the removal, update returns an      *)
(* error and the installed path holds no binary (no file, or the empty     *)
(* file the failed copy created): the old binary is not restored.           *)
C12_NoRollback ==
    /\ (~InLog("remove") /\ ~InLog("copy")) => fs[FvmBinPath] = fs0[FvmBinPath]
    /\ (pc = "upd_done" /\ update_result.kind = "err"
           /\ BeforeRemoval(update_result.err)) =>
           /\ ~InLog("remove")
           /\ ~InLog("copy")
           /\ fs[FvmBinPath] = fs0[FvmBinPath]
    /\ InLog("remove") =>
           /\ artifact.sha256_digest.some
           /\ InLog("sha256")
           /\ hashed = Some(server.body)
           /\ DeclaredCorrect
           /\ result.kind = "ok"
    /\ (pc = "upd_done" /\ InLog("remove") /\ update_result.err = "Copy") =>
           /\ update_result.kind = "err"
           /\ fs[FvmBinPath] # fs0[FvmBinPath]
           /\ fs[FvmBinPath].data = <<>>

\* the old binary was removed, the copy failed, and the installed path is empty
C12_Witness ==
    /\ pc = "upd_done"
    /\ update_result = UpdateErr("Copy")
    /\ InLog("remove")
    /\ fs0[FvmBinPath] = OldFile
    /\ ~fs[FvmBinPath].exists

\* update is inside its install step
Installing == pc \in {"upd_install", "upd_remove", "upd_copy"}

\* nothing is left under the ephemeral directory
TempDirGone ==
    /\ ~tmp_dir
    /\ \A p \in Paths : p.dir = TmpDir => ~fs[p].exists

(* C13: the ephemeral directory created at the start of update exists      *)
(* while the download writes into it and during the whole install step,     *)
(* with the downloaded binary in it unless another process has cleaned it   *)
(* away; on every path on which update returns, success or failure, the     *)
(* directory and what it held are gone.                                     *)
C13_TempDirLifetime ==
    /\ Installing =>
           /\ tmp_dir
           /\ new_fvm_bin = Join(TmpDir, FvmName)
           /\ fs[new_fvm_bin].exists \/ InLog("cleanup")
    /\ (caller = "update" /\ pc # "upd_done") => tmp_dir
    /\ pc = "upd_done" => TempDirGone

\* update has installed the binary it had downloaded into the directory,
\* and the directory is gone
C13_Witness ==
    /\ pc = "upd_done"
    /\ update_result = UpdateOk
    /\ InLog("copy_entry")
    /\ new_fvm_bin = Join(TmpDir, FvmName)
    /\ TempDirGone

----------------------------------------------------------------------------
\* the override variable holds a semantic version
OverrideParses ==
    fvm_update_version.some /\ VersionParse(fvm_update_version.val).some

\* the latest release tag without its leading `v`
StableTag == TrimStartMatches(github.latest_tag, "v")

\* resolve_version has returned
VersionResolved == next_version.kind # "none"

\* the target is what the stable-channel lookup gives
TargetFromStableLookup ==
    /\ InLog("get_latest")
    /\ next_version.kind = "ok" <=> (github.found /\ VersionParse(StableTag).some)
    /\ next_version.kind = "ok" =>
           next_version.version = VersionParse(StableTag).val

\* the target is the override, and no lookup was made
TargetFromOverride ==
    /\ ~InLog("get_latest")
    /\ next_version.kind = "ok"
    /\ next_version.version = VersionParse(fvm_update_version.val).val

(* C14 as claimed: the target version is the value of FVM_UPDATE_VERSION   *)
(* exactly when the variable is present and parses as a semantic version,  *)
(* and then no stable lookup is made; in every other case, the variable     *)
(* absent or present but not parseable, the target is the version of the    *)
(* stable-channel lookup.                                                   *)
C14_OverrideElseStable ==
    VersionResolved =>
        IF OverrideParses THEN TargetFromOverride ELSE TargetFromStableLookup

(* C14, amended: when FVM_UPDATE_VERSION is present and parses, the target  *)
(* is its value and no stable lookup is made; when it is present and does   *)
(* not parse, resolve_version fails with the parse error, no lookup is made *)
(* and process fails without updating; only when it is absent is the target *)
(* the version of the stable-channel lookup.                                *)
C14_OverrideOrParseError ==
    VersionResolved =>
        /\ OverrideParses => TargetFromOverride
        /\ (fvm_update_version.some /\ ~OverrideParses) =>
               /\ next_version.kind = "err"
               /\ next_version.err = "VersionParse"
               /\ ~InLog("get_latest")
               /\ ~InLog("update")
               /\ pc = "proc_done"
               /\ process_result = ProcessErr("VersionParse")
        /\ ~fvm_update_version.some => TargetFromStableLookup

\* the override was taken although the stable release carries another version
C14_Witness ==
    /\ pc = "proc_compare"
    /\ OverrideParses
    /\ github.found
    /\ VersionParse(StableTag).some
    /\ VersionParse(StableTag).val # next_version.version
    /\ TargetFromOverride

----------------------------------------------------------------------------
\* the text of the resolved target version differs from the running VERSION
TargetDiffers ==
    /\ next_version.kind = "ok"
    /\ VersionToString(next_version.version) # VERSION

\* what an update does: release fetch, download, removal, copy
UpdateEffects == {"fetch_release", "get", "create", "remove", "copy"}

NoUpdateEffect ==
    /\ ~InLog("update")
    /\ \A i \in 1..Len(log) : log[i] \notin UpdateEffects
    /\ ~tmp_dir
    /\ fs = fs0

(* C17: process invokes UpdateManager::update exactly when the text of the  *)
(* resolved target version differs from VERSION; when they are equal it     *)
(* reports already up to date, returns Ok and fetches no package set,       *)
(* downloads nothing, removes nothing and copies nothing; when the version  *)
(* resolution fails, process fails with that error without invoking update. *)
C17_UpdateIffVersionDiffers ==
    /\ InLog("update") => TargetDiffers
    /\ (TargetDiffers /\ pc # "proc_compare") => InLog("update")
    /\ \A e \in UpdateEffects : Precedes("update", e)
    /\ (pc = "proc_done" /\ next_version.kind = "ok" /\ ~TargetDiffers) =>
           /\ InLog("up_to_date")
           /\ process_result = ProcessOk
           /\ NoUpdateEffect
    /\ next_version.kind = "err" =>
           /\ pc = "proc_done"
           /\ process_result = ProcessErr(next_version.err)
           /\ NoUpdateEffect
    /\ (pc = "proc_done" /\ InLog("update")) =>
           process_result.kind = update_result.kind

\* the stable release is the running version: nothing was touched
C17_Witness ==
    /\ pc = "proc_done"
    /\ InLog("get_latest")
    /\ InLog("up_to_date")
    /\ github.assets # <<>>
    /\ fs0[FvmBinPath] = OldFile
    /\ fs = fs0
    /\ process_result = ProcessOk

----------------------------------------------------------------------------
\* the Content-Type header of the response, lower-cased, contains "zip"
HeaderSaysZip ==
    /\ server.content_type.some
    /\ LET h == server.content_type.val IN
       \E i \in 1..(Len(h) - 2) :
           /\ AsciiLower(h[i]) = "z"
           /\ AsciiLower(h[i + 1]) = "i"
           /\ AsciiLower(h[i + 2]) = "p"

\* the body starts with the local-file-header magic number 50 4B 03 04
MagicSaysZip ==
    /\ Len(server.body) >= 4
    /\ SubSeq(server.body, 1, 4) = <<80, 75, 3, 4>>

(* C15: a payload that passed the checksum gate goes down the archive path  *)
(* exactly when the lower-cased content type contains "zip" or the body     *)
(* has at least four bytes and starts with 50 4B 03 04, and down the raw    *)
(* path otherwise; on the raw path the written file equals the body byte    *)
(* for byte, and a body of length zero fails with the empty-download error. *)
C15_FormatDetection ==
    InLog("detect") =>
        /\ (HeaderSaysZip \/ MagicSaysZip) =>
               /\ ~InLog("copy_raw")
               /\ pc = "dl_open" \/ InLog("zip_open")
        /\ ~(HeaderSaysZip \/ MagicSaysZip) =>
               /\ ~InLog("zip_open")
               /\ pc = "dl_raw" \/ InLog("copy_raw")
        /\ InLog("copy_raw") =>
               /\ pc = "dl_done"
               /\ fs[OutPath] = FileOf(server.body)
               /\ IF server.body = <<>>
                  THEN result.kind = "err" /\ result.err = "EmptyDownload"
                  ELSE result = Ok(OutPath)

\* an archive sent without a content type was recognised by its first bytes
C15_Witness ==
    /\ pc = "dl_done"
    /\ ~server.content_type.some
    /\ MagicSaysZip
    /\ InLog("zip_open")
    /\ result.kind = "ok"

----------------------------------------------------------------------------
\* the failures of download that come after the checksum gate
PayloadErrors ==
    {"ZipOpen", "EmptyArchive", "NoEntries", "EmptyEntry", "SizeMismatch",
     "EmptyDownload"}

(* C16: target_dir/artifact.name is created, or truncated when it exists,   *)
(* right after the checksum gate and before the format is detected; every   *)
(* failure from there on (archive cannot be opened, empty archive, no file  *)
(* entries, empty entry, size mismatch, empty raw download) leaves a file   *)
(* at that path with the previous content lost; no other path is written.   *)
C16_DestinationCreatedFirst ==
    /\ Precedes("create", "detect")
    /\ pc \in {"dl_detect", "dl_open", "dl_raw", "dl_scan", "dl_extract"} =>
           InLog("create")
    /\ pc \in {"dl_detect", "dl_open", "dl_raw", "dl_scan", "dl_extract"} =>
           fs[OutPath] = FileOf(<<>>)
    /\ InLog("create") =>
           /\ fs[OutPath].exists
           /\ fs0[OutPath].exists => fs[OutPath] # fs0[OutPath]
    /\ (pc = "dl_done" /\ result.kind = "err") =>
           (InLog("create") <=> result.err \in PayloadErrors)
    /\ (pc = "dl_done" /\ result.kind = "ok") => InLog("create")
    /\ \A p \in Paths \ {OutPath} : fs[p] = fs0[p]

\* an unreadable archive: the file that was there before is now empty
C16_Witness ==
    /\ pc = "dl_done"
    /\ result.err = "ZipOpen"
    /\ fs0[OutPath] = OldFile
    /\ fs[OutPath] = FileOf(<<>>)

====
